---- MODULE Spec2Model ----
(***************************************************************************)
(* The travel programs of calmh/travel as state machines.                  *)
(*                                                                         *)
(* The repository holds three main programs:                               *)
(*   "dedup"    src/unnamed/part_000 lines 1-114: read, drop coordinate    *)
(*              collisions, sort by date, write one GeoJSON document;      *)
(*   "purposes" src/unnamed/part_000 lines 116-357: read and geocode,      *)
(*              sort, rewrite the CSV file, write the GeoJSON document     *)
(*              and one document per purpose;                              *)
(*   "resolve"  src/resolve/resolve.go: read and geocode, sort, rewrite    *)
(*              the CSV file, write the GeoJSON document.                  *)
(*                                                                         *)
(* Representation.  A coordinate is an integer number of 1e-7 degrees, so  *)
(* that rounding to 4 and to 6 decimals and truncating to 4 decimals are   *)
(* all different from the identity.  A text is a sequence of characters,   *)
(* character 0 being a space.  A date or number field is a record: sp      *)
(* says whether white space surrounds the text, and the rest says what     *)
(* the text denotes when it denotes something.  A time is yyyy*1000+ddd.   *)
(***************************************************************************)
EXTENDS Integers, Sequences, FiniteSets, TLC

VARIABLES
    prog,            \* which of the three programs runs
    file,            \* the rows of the CSV file on disk
    input,           \* the rows the csv.Reader of this run is reading
    second,          \* TRUE in a run started on the file a first run rewrote
    firstOut,        \* the file as the first run left it (second run only)
    pc,              \* position in main
    abort,           \* why the run ended abnormally, or "none"
    fieldsPerRecord, \* csv.Reader: 0 until the first record sets it
    inPos,           \* the number of records Read has returned
    visits,          \* main's visits slice
    presort,         \* visits as it was when sort was called
    seenCoords,      \* the dedup program's seenCoords map (its key set)
    purposes,        \* the purposes program's purposes map (its key set)
    todo,            \* purposes the range loop has not yet visited
    primary,         \* the GeoJSON document of all visits
    partDocs,        \* purpose -> the GeoJSON document of that purpose
    call,            \* the geocode lookup in flight, if any
    lookups,         \* the records for which this run has called the lookup
    yearToColor,     \* colorForYear's map
    nextColor,       \* colorForYear's cursor
    seenOrder,       \* colour specification: years in order of first call
    lastYear,        \* colour specification: argument of the last call
    lastColor        \* colour specification: result of the last call

vars == <<prog, file, input, second, firstOut, pc, abort, fieldsPerRecord,
          inPos, visits, presort, seenCoords, purposes, todo, primary,
          partDocs, call, lookups, yearToColor, nextColor, seenOrder, lastYear,
          lastColor>>

pipeVars == <<prog, file, input, second, firstOut, pc, abort, fieldsPerRecord,
              inPos, visits, presort, seenCoords, purposes, todo, primary,
              partDocs, call, lookups>>

colorHist == <<seenOrder, lastYear, lastColor>>

-----------------------------------------------------------------------------
(* Bounds *)

MaxRows == 3

NumYears == 13

-----------------------------------------------------------------------------
(* Helpers *)

Range(s) == {s[i] : i \in 1..Len(s)}

Abs(n) == IF n < 0 THEN -n ELSE n

RECURSIVE SeqsUpTo(_, _)
SeqsUpTo(S, n) ==
    IF n = 0 THEN {<<>>}
    ELSE LET shorter == SeqsUpTo(S, n - 1)
         IN  shorter \cup {Append(s, x) : s \in {t \in shorter : Len(t) = n - 1}, x \in S}

Injections(n) == {f \in [1..n -> 1..n] : \A i, j \in 1..n : f[i] = f[j] => i = j}

-----------------------------------------------------------------------------
(* Texts and numbers *)

SP == 0

RECURSIVE TrimLeft(_)
TrimLeft(s) == IF s # <<>> /\ Head(s) = SP THEN TrimLeft(Tail(s)) ELSE s

RECURSIVE TrimRight(_)
TrimRight(s) ==
    IF s # <<>> /\ s[Len(s)] = SP THEN TrimRight(SubSeq(s, 1, Len(s) - 1)) ELSE s

\* strings.TrimSpace on a text
TrimSpace(s) == TrimRight(TrimLeft(s))

\* strings.TrimSpace on a date or number field
TrimSpaceField(f) == [f EXCEPT !.sp = FALSE]

\* Go's < on strings: bytewise lexicographic
RECURSIVE StrLess(_, _)
StrLess(a, b) ==
    IF b = <<>> THEN FALSE
    ELSE IF a = <<>> THEN TRUE
    ELSE IF Head(a) # Head(b) THEN Head(a) < Head(b)
    ELSE StrLess(Tail(a), Tail(b))

ZeroTime == 1001

\* time.Parse("2006-01-02", f): the zero time when the text is no date
ParseDate(f) == IF f.sp \/ f.d = 0 THEN ZeroTime ELSE f.d

\* t.Format("2006-01-02")
FormatDate(t) == [sp |-> FALSE, d |-> t]

Year(t) == t \div 1000

\* strconv.ParseFloat(f, 64): 0 when the text is no number
ParseFloat(f) == IF f.sp \/ ~f.ok THEN 0 ELSE f.n

\* n rounded to the nearest multiple of u, ties to even
RoundTo(n, u) ==
    LET q == n \div u
        r == n % u
    IN  IF 2 * r < u THEN q * u
        ELSE IF 2 * r > u THEN (q + 1) * u
        ELSE IF q % 2 = 0 THEN q * u ELSE (q + 1) * u

\* n truncated toward zero to a multiple of u
TruncTo(n, u) == IF n >= 0 THEN (n \div u) * u ELSE -(((-n) \div u) * u)

E4 == 1000

E6 == 10

\* strconv.FormatFloat(v, 'f', 4, 64) and fmt.Sprintf("%.04f", v)
Format4(v) == [sp |-> FALSE, ok |-> TRUE, n |-> RoundTo(v, E4)]

\* strconv.FormatFloat(v, 'f', 6, 64)
Format6(v) == [sp |-> FALSE, ok |-> TRUE, n |-> RoundTo(v, E6)]

\* float64(int(10000*v)) / 10000
Trunc4(v) == TruncTo(v, E4)

-----------------------------------------------------------------------------
(* The input domain: CSV rows and geocode responses *)

Num(n) == [sp |-> FALSE, ok |-> TRUE, n |-> n]

PaddedNum(n) == [sp |-> TRUE, ok |-> TRUE, n |-> n]

NoNum == [sp |-> FALSE, ok |-> FALSE, n |-> 0]

Date(d) == [sp |-> FALSE, d |-> d]

Row(nf, d, p, a, lat, lng) ==
    [nf |-> nf, date |-> d, purpose |-> p, address |-> a, lat |-> lat, lng |-> lng]

\* Rows a record file may hold.  nf is the number of fields of the row; the
\* five fields matter only when nf = 5.
RowPool ==
    { \* two plain rows of one day whose coordinates agree to 4 decimals
      Row(5, Date(2020061), <<1>>, <<2>>, Num(401234000), Num(-750000000)),
      Row(5, Date(2020061), <<1>>, <<1>>, Num(401234400), Num(-750000040)),
      \* the latitude of the first, another longitude, no purpose
      Row(5, Date(2021002), <<>>, <<1, 2>>, Num(401234000), Num(123456700)),
      \* no coordinates yet: the address is to be resolved
      Row(5, Date(2020061), <<2>>, <<SP, 1>>, Num(0), Num(0)),
      \* white space around the fields, a latitude below 0.00005, no date and
      \* no longitude
      Row(5, [sp |-> TRUE, d |-> 0], <<SP>>, <<2, SP>>, PaddedNum(404), NoNum),
      \* a short row
      Row(3, Date(0), <<>>, <<>>, NoNum, NoNum) }

Inputs == SeqsUpTo(RowPool, MaxRows)

Geo(a, lat, lng) == [address |-> a, lat |-> lat, lng |-> lng]

ResultLists ==
    { <<>>,
      <<Geo(<<3>>, 591234560, 181234560)>>,
      <<Geo(<<1, 3>>, 100000, 0), Geo(<<3>>, 591234560, 181234560)>> }

\* What http.Get and the body give: err is a transport error; readable says
\* whether the body can be read to its end; json whether it is JSON of the
\* expected shape, and results is then its "results" array.
Responses ==
    { [err |-> TRUE, status |-> 0, readable |-> FALSE, json |-> FALSE, results |-> <<>>] }
    \cup { [err |-> FALSE, status |-> st, readable |-> FALSE, json |-> FALSE, results |-> <<>>] :
              st \in {200, 500} }
    \cup { [err |-> FALSE, status |-> st, readable |-> TRUE, json |-> FALSE, results |-> <<>>] :
              st \in {200, 500} }
    \cup { [err |-> FALSE, status |-> st, readable |-> TRUE, json |-> TRUE, results |-> rs] :
              st \in {200, 500}, rs \in ResultLists }

\* The place of a response where no request is made
NoResponse == [err |-> TRUE, status |-> 0, readable |-> FALSE, json |-> FALSE, results |-> <<>>]

\* The failure modes of a lookup
Failed(resp) ==
    resp.err \/ resp.status > 299 \/ ~resp.readable \/ ~resp.json \/ resp.results = <<>>

-----------------------------------------------------------------------------
(* Geocode lookup *)

Ret(lat, lng, addr) == [lat |-> lat, lng |-> lng, addr |-> addr]

\* lookup of the purposes program
lookup(search, resp) ==
    IF resp.err THEN Ret(0, 0, search)
    ELSE IF resp.status > 299 THEN Ret(0, 0, search)
    ELSE IF ~resp.readable THEN Ret(0, 0, search)
    ELSE IF ~resp.json THEN Ret(0, 0, search)
    ELSE IF Len(resp.results) = 0 THEN Ret(0, 0, search)
    ELSE Ret(resp.results[1].lat, resp.results[1].lng, resp.results[1].address)

\* loopkup of resolve.go: no status check, and "" for the address on failure
loopkup(search, resp) ==
    IF resp.err THEN Ret(0, 0, <<>>)
    ELSE IF ~resp.readable \/ ~resp.json THEN Ret(0, 0, <<>>)
    ELSE IF Len(resp.results) = 0 THEN Ret(0, 0, <<>>)
    ELSE Ret(resp.results[1].lat, resp.results[1].lng, resp.results[1].address)

-----------------------------------------------------------------------------
(* Visits *)

\* A *visit.  id is the identity of the pointer (the number of the record it
\* was made from); nil is the nil pointer.
Visit(id, when, purpose, address, lat, lng) ==
    [nil |-> FALSE, id |-> id, when |-> when, purpose |-> purpose,
     address |-> address, lat |-> lat, lng |-> lng]

Nil == [nil |-> TRUE, id |-> 0, when |-> 0, purpose |-> <<>>,
        address |-> <<>>, lat |-> 0, lng |-> 0]

\* The fields of the visit as parsed, before any lookup
Parsed(p, id, fs) ==
    IF p = "dedup"
    THEN Visit(id, ParseDate(TrimSpaceField(fs.date)), <<>>, TrimSpace(fs.address),
               ParseFloat(TrimSpaceField(fs.lat)), ParseFloat(TrimSpaceField(fs.lng)))
    ELSE IF p = "purposes"
    THEN Visit(id, ParseDate(TrimSpaceField(fs.date)), TrimSpace(fs.purpose),
               TrimSpace(fs.address),
               ParseFloat(TrimSpaceField(fs.lat)), ParseFloat(TrimSpaceField(fs.lng)))
    ELSE Visit(id, ParseDate(fs.date), fs.purpose, fs.address,
               ParseFloat(fs.lat), ParseFloat(fs.lng))

\* Mutant: the lookup is called when either coordinate is 0
NeedsLookup_Either(p, v) == p # "dedup" /\ (v.lat = 0 \/ v.lng = 0)

\* Whether visitFromStrings calls the lookup for the parsed visit
NeedsLookup(p, v) == p # "dedup" /\ v.lat = 0 /\ v.lng = 0

Resolve(p, search, resp) == IF p = "purposes" THEN lookup(search, resp) ELSE loopkup(search, resp)

\* visitFromStrings; resp is what the geocode service answers if it is asked
visitFromStrings(p, id, fs, resp) ==
    IF fs.nf # 5 THEN Nil
    ELSE LET v == Parsed(p, id, fs)
         IN  IF NeedsLookup(p, v)
             THEN LET r == Resolve(p, v.address, resp)
                  IN  [v EXCEPT !.lat = r.lat, !.lng = r.lng, !.address = r.addr]
             ELSE v

\* Mutant: the coordinates are cut, not rounded, to the decimals written
strings_Truncating(p, v) ==
    IF p = "purposes"
    THEN Row(5, FormatDate(v.when), v.purpose, v.address,
             Num(TruncTo(v.lat, E4)), Num(TruncTo(v.lng, E4)))
    ELSE Row(5, FormatDate(v.when), v.purpose, v.address,
             Num(TruncTo(v.lat, E6)), Num(TruncTo(v.lng, E6)))

\* (*visit).strings
strings(p, v) ==
    IF p = "purposes"
    THEN Row(5, FormatDate(v.when), v.purpose, v.address, Format4(v.lat), Format4(v.lng))
    ELSE Row(5, FormatDate(v.when), v.purpose, v.address, Format6(v.lat), Format6(v.lng))

\* Mutant: Less compares the dates alone
Less_DateOnly(p, a, b) == a.when < b.when

\* visitList.Less, and the comparison the dedup program gives slices.SortFunc
Less(p, a, b) ==
    IF p = "dedup" THEN a.when < b.when
    ELSE IF a.when # b.when THEN a.when < b.when
    ELSE StrLess(a.address, b.address)

\* The results sort.Sort and slices.SortFunc may give: neither is stable, so
\* every ordering of the slice in which no element is Less than an earlier one
Sorted(p, vs) ==
    { [i \in 1..Len(vs) |-> vs[f[i]]] : f \in
        { g \in Injections(Len(vs)) :
            \A i, j \in 1..Len(vs) : i < j => ~Less(p, vs[g[j]], vs[g[i]]) } }

\* Mutant: the filter stops at the first visit of another purpose
RECURSIVE filterByPurpose_Prefix(_, _)
filterByPurpose_Prefix(vs, purpose) ==
    IF vs = <<>> THEN <<>>
    ELSE IF Head(vs).purpose = purpose
         THEN <<Head(vs)>> \o filterByPurpose_Prefix(Tail(vs), purpose)
         ELSE <<>>

\* filterByPurpose
RECURSIVE filterByPurpose(_, _)
filterByPurpose(vs, purpose) ==
    IF vs = <<>> THEN <<>>
    ELSE IF Head(vs).purpose = purpose
         THEN <<Head(vs)>> \o filterByPurpose(Tail(vs), purpose)
         ELSE filterByPurpose(Tail(vs), purpose)

-----------------------------------------------------------------------------
(* Colours *)

colors == << "#a6cee3", "#1f78b4", "#b2df8a", "#33a02c", "#fb9a99", "#e31a1c",
             "#fdbf6f", "#ff7f00", "#cab2d6", "#6a3d9a", "#ffff99", "#b15928" >>

\* Mutant: the map is not consulted, every call takes the next colour
colorForYear_NoMemo(m, n, t) ==
    LET c == colors[n + 1]
    IN  [c |-> c,
         m |-> [y \in DOMAIN m \cup {Year(t)} |-> IF y = Year(t) THEN c ELSE m[y]],
         n |-> (n + 1) % Len(colors)]

\* colorForYear on the map m and cursor n: the colour, and the map and cursor
\* it leaves
colorForYear(m, n, t) ==
    IF Year(t) \in DOMAIN m
    THEN [c |-> m[Year(t)], m |-> m, n |-> n]
    ELSE LET c == colors[n + 1]
         IN  [c |-> c,
              m |-> [y \in DOMAIN m \cup {Year(t)} |-> IF y = Year(t) THEN c ELSE m[y]],
              n |-> (n + 1) % Len(colors)]

\* (*visit).MarshalJSON: the feature of a visit
Feature(p, v, color) ==
    IF p = "dedup"
    THEN [lng |-> Trunc4(v.lng), lat |-> Trunc4(v.lat),
          date |-> FormatDate(v.when), name |-> v.address]
    ELSE IF p = "purposes"
    THEN [lng |-> Trunc4(v.lng), lat |-> Trunc4(v.lat), symbol |-> v.purpose,
          color |-> color, date |-> FormatDate(v.when), name |-> v.address]
    ELSE [lng |-> v.lng, lat |-> v.lat, symbol |-> v.purpose,
          color |-> color, date |-> FormatDate(v.when), name |-> v.address]

\* Feature, with the colours left out of the comparison of two features
Place(p, v) == Feature(p, v, "")

\* Mutant: a visit at the place of the visit before it gives no feature
RECURSIVE Marshal_SkipSamePlace(_, _, _, _)
Marshal_SkipSamePlace(p, vs, m, n) ==
    IF vs = <<>> THEN [features |-> <<>>, m |-> m, n |-> n]
    ELSE LET r == IF p = "dedup" THEN [c |-> "", m |-> m, n |-> n]
                  ELSE colorForYear(m, n, Head(vs).when)
             rest == Marshal_SkipSamePlace(p, Tail(vs), r.m, r.n)
         IN  IF rest.features # <<>>
                /\ Head(rest.features).lat = Place(p, Head(vs)).lat
                /\ Head(rest.features).lng = Place(p, Head(vs)).lng
             THEN rest
             ELSE [rest EXCEPT !.features = <<Feature(p, Head(vs), r.c)>> \o @]

\* json.MarshalIndent of the visits, one MarshalJSON after the other: the
\* features, and the colour map and cursor the calls leave
RECURSIVE Marshal(_, _, _, _)
Marshal(p, vs, m, n) ==
    IF vs = <<>> THEN [features |-> <<>>, m |-> m, n |-> n]
    ELSE IF p = "dedup"
    THEN LET rest == Marshal(p, Tail(vs), m, n)
         IN  [rest EXCEPT !.features = <<Feature(p, Head(vs), "")>> \o @]
    ELSE LET r == colorForYear(m, n, Head(vs).when)
             rest == Marshal(p, Tail(vs), r.m, r.n)
         IN  [rest EXCEPT !.features = <<Feature(p, Head(vs), r.c)>> \o @]

-----------------------------------------------------------------------------
(* The runs of main *)

EmptyMap == [y \in {} |-> ""]

NoCall == [id |-> 0, search |-> <<>>, resp |-> NoResponse, ret |-> Ret(0, 0, <<>>)]

NoDoc == [written |-> FALSE, features |-> <<>>]

Doc(fs) == [written |-> TRUE, features |-> fs]

Progs == {"dedup", "purposes", "resolve"}

\* The state of a process that has just started on the file f
Start(f) ==
    /\ input = f
    /\ file = f
    /\ pc = "open"
    /\ abort = "none"
    /\ fieldsPerRecord = 0
    /\ inPos = 0
    /\ visits = <<>>
    /\ presort = <<>>
    /\ seenCoords = {}
    /\ purposes = {}
    /\ todo = {}
    /\ primary = NoDoc
    /\ partDocs = EmptyMap
    /\ call = NoCall
    /\ lookups = <<>>
    /\ yearToColor = EmptyMap
    /\ nextColor = 0
    /\ seenOrder = <<>>
    /\ lastYear = 0
    /\ lastColor = ""

Init ==
    /\ prog \in Progs
    /\ second = FALSE
    /\ firstOut = <<>>
    /\ \E f \in Inputs : Start(f)

\* log.Fatal, and a run-time panic
Fatal(why) == pc' = "fatal" /\ abort' = why

Panic == pc' = "panic" /\ abort' = "nil dereference"

\* os.Open succeeds
Open ==
    /\ pc = "open"
    /\ pc' = "read"
    /\ UNCHANGED <<prog, file, input, second, firstOut, abort, fieldsPerRecord,
                   inPos, visits, presort, seenCoords, purposes, todo, primary,
                   partDocs, call, lookups, yearToColor, nextColor, colorHist>>

\* os.Open fails
OpenFails ==
    /\ pc = "open"
    /\ Fatal("open")
    /\ UNCHANGED <<prog, file, input, second, firstOut, fieldsPerRecord,
                   inPos, visits, presort, seenCoords, purposes, todo, primary,
                   partDocs, call, lookups, yearToColor, nextColor, colorHist>>

\* csv.Reader.Read with FieldsPerRecord 0: the first record sets the number
\* of fields, and a later record of another length is ErrFieldCount
ReadOK ==
    /\ inPos < Len(input)
    /\ fieldsPerRecord \in {0, input[inPos + 1].nf}

\* The key the dedup program looks up in seenCoords
coords(v) == <<Format4(v.lat), Format4(v.lat)>>

\* One turn of the read loop of the dedup program
ReadDedup ==
    /\ pc = "read" /\ prog = "dedup" /\ ReadOK
    /\ LET in == input[inPos + 1]
           visit == visitFromStrings(prog, inPos + 1, in, NoResponse)
       IN  /\ inPos' = inPos + 1
           /\ fieldsPerRecord' = in.nf
           /\ IF visit.nil
              THEN Panic /\ UNCHANGED <<visits, seenCoords>>
              ELSE /\ UNCHANGED <<pc, abort>>
                   /\ IF coords(visit) \in seenCoords
                      THEN UNCHANGED <<visits, seenCoords>>
                      ELSE /\ seenCoords' = seenCoords \cup {coords(visit)}
                           /\ visits' = Append(visits, visit)
    /\ UNCHANGED <<prog, file, input, second, firstOut, presort, purposes, todo,
                   primary, partDocs, call, lookups, yearToColor, nextColor, colorHist>>

\* One turn of the read loop of the purposes and resolve programs, up to the
\* return of visitFromStrings, or up to the answer resp of the geocode
\* service when visitFromStrings calls the lookup
ReadResolve ==
    /\ pc = "read" /\ prog # "dedup" /\ ReadOK
    /\ LET in == input[inPos + 1]
           id == inPos + 1
       IN  IF in.nf = 5 /\ NeedsLookup(prog, Parsed(prog, id, in))
           THEN /\ \E resp \in Responses :
                     LET search == Parsed(prog, id, in).address
                     IN  call' = [id |-> id, search |-> search, resp |-> resp,
                                  ret |-> Resolve(prog, search, resp)]
                /\ lookups' = Append(lookups, id)
                /\ pc' = "lookup"
                /\ UNCHANGED <<inPos, fieldsPerRecord, visits>>
           ELSE /\ inPos' = id
                /\ fieldsPerRecord' = in.nf
                /\ visits' = Append(visits, visitFromStrings(prog, id, in, NoResponse))
                /\ UNCHANGED <<pc, call, lookups>>
    /\ UNCHANGED <<prog, file, input, second, firstOut, abort, presort,
                   seenCoords, purposes, todo, primary, partDocs, yearToColor,
                   nextColor, colorHist>>

\* The lookup returns, then visitFromStrings, and the visit is appended
LookupReturns ==
    /\ pc = "lookup"
    /\ LET in == input[inPos + 1]
       IN  /\ inPos' = inPos + 1
           /\ fieldsPerRecord' = in.nf
           /\ visits' = Append(visits, visitFromStrings(prog, call.id, in, call.resp))
    /\ call' = NoCall
    /\ pc' = "read"
    /\ UNCHANGED <<prog, file, input, second, firstOut, abort, presort,
                   seenCoords, purposes, todo, primary, partDocs, lookups,
                   yearToColor, nextColor, colorHist>>

\* Read returns an error (io.EOF, or ErrFieldCount): the read loop ends
ReadEnds ==
    /\ pc = "read" /\ ~ReadOK
    /\ pc' = "sort"
    /\ UNCHANGED <<prog, file, input, second, firstOut, abort, fieldsPerRecord,
                   inPos, visits, presort, seenCoords, purposes, todo, primary,
                   partDocs, call, lookups, yearToColor, nextColor, colorHist>>

\* sort.Sort(visitList(visits)), slices.SortFunc(visits, ...): sorting two or
\* more elements compares every one of them, and Less dereferences both
Sort ==
    /\ pc = "sort"
    /\ presort' = visits
    /\ IF Len(visits) >= 2 /\ Nil \in Range(visits)
       THEN Panic /\ UNCHANGED visits
       ELSE /\ visits' \in Sorted(prog, visits)
            /\ pc' = IF prog = "dedup" THEN "save"
                     ELSE IF prog = "purposes" THEN "purposes" ELSE "rewrite"
            /\ UNCHANGED abort
    /\ UNCHANGED <<prog, file, input, second, firstOut, fieldsPerRecord, inPos,
                   seenCoords, purposes, todo, primary, partDocs, call,
                   lookups,                    yearToColor, nextColor, colorHist>>

\* The loop that collects the purposes
CollectPurposes ==
    /\ pc = "purposes"
    /\ IF Nil \in Range(visits)
       THEN Panic /\ UNCHANGED purposes
       ELSE /\ purposes' = {visits[i].purpose : i \in 1..Len(visits)}
            /\ pc' = "rewrite"
            /\ UNCHANGED abort
    /\ UNCHANGED <<prog, file, input, second, firstOut, fieldsPerRecord, inPos,
                   visits, presort, seenCoords, todo, primary, partDocs, call,
                   lookups,                    yearToColor, nextColor, colorHist>>

\* os.Create(*file) succeeds and the visits are written; the rows written
\* before a nil visit stay in the csv.Writer's buffer
Rewrite ==
    /\ pc = "rewrite"
    /\ IF Nil \in Range(visits)
       THEN Panic /\ file' = <<>>
       ELSE /\ file' = [i \in 1..Len(visits) |-> strings(prog, visits[i])]
            /\ pc' = "save"
            /\ UNCHANGED abort
    /\ UNCHANGED <<prog, input, second, firstOut, fieldsPerRecord, inPos, visits,
                   presort, seenCoords, purposes, todo, primary, partDocs, call,
                   lookups,                    yearToColor, nextColor, colorHist>>

\* os.Create(*file) fails
RewriteFails ==
    /\ pc = "rewrite"
    /\ Fatal("create")
    /\ UNCHANGED <<prog, file, input, second, firstOut, fieldsPerRecord, inPos,
                   visits, presort, seenCoords, purposes, todo, primary, partDocs,
                   call, lookups, yearToColor, nextColor, colorHist>>

\* saveVisits(visits, fname), ok saying whether os.Create succeeds
SavePrimary ==
    /\ pc = "save"
    /\ LET r == Marshal(prog, visits, yearToColor, nextColor)
       IN  /\ yearToColor' = r.m
           /\ nextColor' = r.n
           /\ \E ok \in BOOLEAN :
                IF ok
                THEN /\ primary' = Doc(r.features)
                     /\ todo' = purposes
                     /\ pc' = IF purposes = {} THEN "done" ELSE "parts"
                     /\ UNCHANGED abort
                ELSE Fatal("create") /\ UNCHANGED <<primary, todo>>
    /\ UNCHANGED <<prog, file, input, second, firstOut, fieldsPerRecord, inPos,
                   visits, presort, seenCoords, purposes, partDocs, call, lookups, colorHist>>

\* One turn of the loop over the purposes map, in the order the map gives
SavePartition ==
    /\ pc = "parts"
    /\ \E purpose \in todo :
         LET r == Marshal(prog, filterByPurpose(visits, purpose), yearToColor, nextColor)
         IN  /\ yearToColor' = r.m
             /\ nextColor' = r.n
             /\ \E ok \in BOOLEAN :
                  IF ok
                  THEN /\ partDocs' = [q \in DOMAIN partDocs \cup {purpose} |->
                                          IF q = purpose THEN Doc(r.features) ELSE partDocs[q]]
                       /\ todo' = todo \ {purpose}
                       /\ pc' = IF todo = {purpose} THEN "done" ELSE "parts"
                       /\ UNCHANGED abort
                  ELSE Fatal("create") /\ UNCHANGED <<partDocs, todo>>
    /\ UNCHANGED <<prog, file, input, second, firstOut, fieldsPerRecord, inPos,
                   visits, presort, seenCoords, purposes, primary, call, lookups, colorHist>>

\* The program is run again on the file it rewrote
Rerun ==
    /\ pc = "done" /\ ~second /\ prog # "dedup"
    /\ second' = TRUE
    /\ firstOut' = file
    /\ input' = file
    /\ pc' = "open"
    /\ abort' = "none"
    /\ fieldsPerRecord' = 0
    /\ inPos' = 0
    /\ visits' = <<>>
    /\ presort' = <<>>
    /\ purposes' = {}
    /\ todo' = {}
    /\ primary' = NoDoc
    /\ partDocs' = EmptyMap
    /\ call' = NoCall
    /\ lookups' = <<>>
    /\ yearToColor' = EmptyMap
    /\ nextColor' = 0
    /\ UNCHANGED <<prog, file, seenCoords, colorHist>>

Next ==
    \/ Open
    \/ OpenFails
    \/ ReadDedup
    \/ ReadResolve
    \/ LookupReturns
    \/ ReadEnds
    \/ Sort
    \/ CollectPurposes
    \/ Rewrite
    \/ RewriteFails
    \/ SavePrimary
    \/ SavePartition
    \/ Rerun

Spec == Init /\ [][Next]_vars

-----------------------------------------------------------------------------
(* colorForYear on its own: the calls main makes reach the palette's end     *)
(* only with more than 12 years, so the calls are taken one by one here.     *)
(* main marshals the sorted visits before any other, so that a year not yet  *)
(* seen is never below a year already seen.                                  *)

Years == 2001..(2000 + NumYears)

InitColor ==
    /\ prog = "purposes"
    /\ second = FALSE
    /\ firstOut = <<>>
    /\ Start(<<>>)

\* The years main may pass next: one seen before, or one after all of them
MayCall(y) == IF y \in DOMAIN yearToColor THEN TRUE ELSE \A z \in DOMAIN yearToColor : y > z

CallColorForYear ==
    \E y \in {z \in Years : MayCall(z)} :
        /\ LET r == colorForYear(yearToColor, nextColor, y * 1000 + 1)
           IN  /\ yearToColor' = r.m
               /\ nextColor' = r.n
               /\ seenOrder' = IF y \in DOMAIN yearToColor THEN seenOrder
                               ELSE Append(seenOrder, y)
               /\ lastYear' = y
               /\ lastColor' = r.c
        /\ UNCHANGED pipeVars

SpecColor == InitColor /\ [][CallColorForYear]_vars

-----------------------------------------------------------------------------
(* Vocabulary of the claims *)

Count(s, x) == Cardinality({i \in 1..Len(s) : s[i] = x})

\* b holds the elements of a, each as often as a does
IsPermutation(a, b) ==
    /\ Len(a) = Len(b)
    /\ \A x \in Range(a) \cup Range(b) : Count(a, x) = Count(b, x)

\* The coordinates of record id as visitFromStrings of the program parses them
ParsedLat(id) ==
    ParseFloat(IF prog = "resolve" THEN input[id].lat ELSE TrimSpaceField(input[id].lat))

ParsedLng(id) ==
    ParseFloat(IF prog = "resolve" THEN input[id].lng ELSE TrimSpaceField(input[id].lng))

ParsedAddress(id) ==
    IF prog = "resolve" THEN input[id].address ELSE TrimSpace(input[id].address)

Sentinel(id) == ParsedLat(id) = 0 /\ ParsedLng(id) = 0

\* main has sorted the visits
AfterSort ==
    \/ pc \in {"purposes", "rewrite", "save", "parts", "done"}
    \/ pc = "fatal" /\ abort = "create"

\* main has rewritten the record file, and file[k] is the row of visits[k]
Rewritten == prog # "dedup" /\ pc \in {"save", "parts", "done"}

\* A valid row: five fields, no white space around any, a date and two numbers
Valid(r) ==
    /\ r.nf = 5
    /\ ~r.date.sp /\ r.date.d # 0
    /\ TrimSpace(r.purpose) = r.purpose
    /\ TrimSpace(r.address) = r.address
    /\ ~r.lat.sp /\ r.lat.ok
    /\ ~r.lng.sp /\ r.lng.ok

\* The number written is the number read, to 4 decimal places
To4Decimals(out, in) == ~out.sp /\ out.ok /\ 2 * Abs(out.n - in.n) <= E4

\* Row out gives back row in
RoundTrip(out, in) ==
    /\ out.nf = 5
    /\ out.date = in.date
    /\ out.purpose = in.purpose
    /\ out.address = in.address
    /\ To4Decimals(out.lat, in.lat)
    /\ To4Decimals(out.lng, in.lng)

ZeroRow(r) == ParseFloat(r.lat) = 0 /\ ParseFloat(r.lng) = 0

RECURSIVE SumOfLengths(_, _)
SumOfLengths(docs, ps) ==
    IF ps = {} THEN 0
    ELSE LET p == CHOOSE q \in ps : TRUE
         IN  Len(docs[p].features) + SumOfLengths(docs, ps \ {p})

\* The features of a document that carry marker-symbol p
WithSymbol(fs, p) == LET Is(f) == f.symbol = p IN SelectSeq(fs, Is)

\* The features of a document at the place of record id
AtPlaceOf(fs, id) ==
    LET Is(f) == f.lat = Trunc4(ParsedLat(id)) /\ f.lng = Trunc4(ParsedLng(id))
    IN  SelectSeq(fs, Is)

-----------------------------------------------------------------------------
(* C1 *)

\* C1: the Nth distinct year passed to colorForYear has palette entry
\* (N-1) mod 12, a call for a year seen before returns the colour that year
\* was first given (the map keeps exactly the years seen, each with the colour
\* of its rank), and the cursor stays in 0..11.
C1_ColorByRank ==
    /\ nextColor \in 0..(Len(colors) - 1)
    /\ nextColor = Len(seenOrder) % Len(colors)
    /\ DOMAIN yearToColor = Range(seenOrder)
    /\ \A i \in 1..Len(seenOrder) :
          /\ yearToColor[seenOrder[i]] = colors[((i - 1) % 12) + 1]
          /\ lastYear = seenOrder[i] => lastColor = colors[((i - 1) % 12) + 1]

\* More than 12 years have been seen, the 13th has the first colour again,
\* and the last call was for a year seen earlier.
C1_Witness ==
    /\ Len(seenOrder) > Len(colors)
    /\ yearToColor[seenOrder[13]] = colors[1]
    /\ lastYear = seenOrder[2]
    /\ lastColor = colors[2]

-----------------------------------------------------------------------------
(* C2 *)

\* C2: in the dedup program, a record read is dropped exactly when an earlier
\* record agrees with it in latitude and in longitude, each rounded to 4
\* decimal places; every other record is kept.
C2_DedupOnBothCoordinates ==
    (prog = "dedup" /\ pc \in {"sort", "save", "done"}) =>
        \A j \in 1..inPos :
            (\E k \in 1..Len(visits) : visits[k].id = j)
            <=> ~\E i \in 1..(j - 1) :
                    /\ Format4(ParsedLat(i)) = Format4(ParsedLat(j))
                    /\ Format4(ParsedLng(i)) = Format4(ParsedLng(j))

-----------------------------------------------------------------------------
(* C3 *)

-----------------------------------------------------------------------------
(* C4 *)

\* C4: whenever the geocode lookup fails (transport error, status above 299,
\* unreadable body, unparseable body, no results) it returns latitude 0,
\* longitude 0 and the address it was given.
C4_FailureKeepsAddress ==
    (pc = "lookup" /\ Failed(call.resp)) => call.ret = Ret(0, 0, call.search)

-----------------------------------------------------------------------------
(* C5 *)

\* C5: a run of the purposes program that no file failure ends drops the rows
\* that have not 5 fields and nothing else: it ends normally, and the record
\* file and the primary document hold one entry for every 5-field row of the
\* input.
C5_OnlyMalformedRowsDropped ==
    (prog = "purposes" /\ pc \in {"done", "panic"}) =>
        /\ pc = "done"
        /\ Len(file) = Cardinality({i \in 1..Len(input) : input[i].nf = 5})
        /\ Len(primary.features) = Cardinality({i \in 1..Len(input) : input[i].nf = 5})

-----------------------------------------------------------------------------
(* C6 *)

\* C6: a run ends abnormally only when the input file cannot be opened or an
\* output file cannot be created.
C6_OnlyFileFailuresAbort ==
    pc \in {"fatal", "panic"} => abort \in {"open", "create"}

-----------------------------------------------------------------------------
(* C7 *)

-----------------------------------------------------------------------------
(* C8 *)

\* C8 as stated: the row written for a visit gives back the valid row the
\* visit was parsed from (date, purpose and address the same, latitude and
\* longitude to 4 decimal places), and a run on the file a run rewrote leaves
\* the same file.
C8_Original ==
    Rewritten =>
        /\ \A k \in 1..Len(visits) :
              Valid(input[visits[k].id]) => RoundTrip(file[k], input[visits[k].id])
        /\ second => file = firstOut

\* C8 as amended: the row written for a visit gives back the valid row the
\* visit was parsed from, provided the coordinates of that row are not both
\* zero; and a run on the file a run rewrote, when no row of that file has
\* both coordinates zero, writes the same rows again (in the order of the
\* sort, which leaves rows of one date and address in any order).
C8_RoundTrip ==
    Rewritten =>
        /\ \A k \in 1..Len(visits) :
              (Valid(input[visits[k].id]) /\ ~ZeroRow(input[visits[k].id]))
                 => RoundTrip(file[k], input[visits[k].id])
        /\ (second /\ \A i \in 1..Len(firstOut) : ~ZeroRow(firstOut[i]))
              => IsPermutation(firstOut, file)

\* A second run has rewritten a file of several rows, none with both
\* coordinates zero, that the first run had written.
C8_Witness ==
    /\ Rewritten /\ second /\ pc = "done"
    /\ Len(firstOut) >= 2
    /\ \A i \in 1..Len(firstOut) : ~ZeroRow(firstOut[i])
    /\ \E i \in 1..Len(firstOut) : firstOut[i].lat.n % E4 # 0

-----------------------------------------------------------------------------
(* C9 *)

\* C9: the run of the purposes program writes one document for every purpose
\* among the sorted visits, the empty purpose included; the document of
\* purpose P holds exactly the features of the primary document that carry P,
\* in their order there; and the sizes of the documents add up to the size of
\* the primary document.
C9_Partition ==
    prog = "purposes" =>
        /\ \A p \in DOMAIN partDocs :
              /\ p \in {visits[i].purpose : i \in 1..Len(visits)}
              /\ partDocs[p].written
              /\ partDocs[p].features = WithSymbol(primary.features, p)
        /\ pc = "done" =>
              /\ DOMAIN partDocs = {visits[i].purpose : i \in 1..Len(visits)}
              /\ SumOfLengths(partDocs, DOMAIN partDocs) = Len(primary.features)
              /\ Len(primary.features) = Len(visits)

\* A finished run has written several documents, one of them for the empty
\* purpose, one of them with two features that are not neighbours in the
\* primary document.
C9_Witness ==
    /\ prog = "purposes" /\ pc = "done"
    /\ Cardinality(DOMAIN partDocs) >= 2
    /\ <<>> \in DOMAIN partDocs
    /\ Len(primary.features) = 3
    /\ primary.features[1].symbol = primary.features[3].symbol
    /\ primary.features[1].symbol # primary.features[2].symbol

-----------------------------------------------------------------------------
(* C10 *)

\* C10: in the purposes and resolve programs the lookup is called for a
\* record if and only if its latitude and its longitude both parse to 0, and
\* then once; a visit whose parsed coordinates are not both 0 has the address
\* and the coordinates parsed from its row.
C10_LookupOnlyForSentinel ==
    prog # "dedup" =>
        /\ \A id \in 1..Len(input) :
              Count(lookups, id) =
                 IF /\ id <= inPos + (IF pc = "lookup" THEN 1 ELSE 0)
                    /\ input[id].nf = 5
                    /\ Sentinel(id)
                 THEN 1 ELSE 0
        /\ \A k \in 1..Len(visits) :
              (~visits[k].nil /\ ~Sentinel(visits[k].id)) =>
                 /\ visits[k].address = ParsedAddress(visits[k].id)
                 /\ visits[k].lat = ParsedLat(visits[k].id)
                 /\ visits[k].lng = ParsedLng(visits[k].id)

\* A run has read a record with one coordinate 0 without a lookup and a
\* record with both coordinates 0 with one.
C10_Witness ==
    /\ prog # "dedup" /\ pc = "sort"
    /\ Len(lookups) = 1
    /\ \E id \in 1..inPos :
          /\ input[id].nf = 5
          /\ ~Sentinel(id)
          /\ ParsedLat(id) = 0 \/ ParsedLng(id) = 0

====
